---- MODULE Spec2Model ----
(***************************************************************************)
(* Model of the artifact build optimizer: catalog loading and filtering,   *)
(* coefficient computation, the session extrema cache with its             *)
(* fingerprint, the balanced and the alternative integer programs, the     *)
(* orchestration of ArtifactBuildManager.run, and the submit handlers of   *)
(* the pages with the editor table and its validation.                     *)
(*                                                                         *)
(* Conventions                                                             *)
(*  - A Python dict is a function; `key in d` is `key \in DOMAIN d`.       *)
(*  - d.get(key) is modelled by Opt(d, key): <<>> for None, <<v>> for v.   *)
(*  - Row and variable indices are the Python ones, 0..N-1.                *)
(*  - The MILP solver is an opaque oracle: it reports Optimal with a       *)
(*    point of the feasible set (an optimal one where the code solves to   *)
(*    optimality) or a non-Optimal status.                                 *)
(*  - Scores are rationals; they are kept exactly as integers in units of  *)
(*    1 / ScoreUnit, a positive constant of one run.                       *)
(***************************************************************************)
EXTENDS Integers, Sequences, FiniteSets, TLC

(* ------------------------------------------------------------------ *)
(* Bounds of the model                                                  *)
(* ------------------------------------------------------------------ *)
MaxSlots == 2
MaxCopy == 2
MaxAlt == 2
MaxRuns == 2
MaxFixed == 3

(* ------------------------------------------------------------------ *)
(* Generic helpers                                                      *)
(* ------------------------------------------------------------------ *)
Range(s) == {s[i] : i \in DOMAIN s}

Abs(v) == IF v < 0 THEN -v ELSE v

Min2(a, b) == IF a <= b THEN a ELSE b

SetMax(S) == CHOOSE v \in S : \A w \in S : w <= v

\* d.get(key): <<>> stands for None
Opt(d, key) == IF key \in DOMAIN d THEN <<d[key]>> ELSE <<>>

\* d.get(key, default) for numeric values
GetOr(d, key, default) == IF key \in DOMAIN d THEN d[key] ELSE default

\* sum of f[0] .. f[n-1]
RECURSIVE SumTo(_, _)
SumTo(f, n) == IF n = 0 THEN 0 ELSE f[n - 1] + SumTo(f, n - 1)

\* sum of f[e] over a finite set
RECURSIVE SumOver(_, _)
SumOver(f, S) ==
  IF S = {} THEN 0
  ELSE LET e == CHOOSE e \in S : TRUE IN f[e] + SumOver(f, S \ {e})

\* product of f[e] over a finite set
RECURSIVE ProdOver(_, _)
ProdOver(f, S) ==
  IF S = {} THEN 1
  ELSE LET e == CHOOSE e \in S : TRUE IN f[e] * ProdOver(f, S \ {e})

(* ------------------------------------------------------------------ *)
(* Strings: lexicographic order of the names that occur                 *)
(* ------------------------------------------------------------------ *)
NameOrder == <<"a", "b", "c", "d", "p", "q", "slots">>

\* position of a name in the lexicographic order (Python str comparison)
NameRanks ==
  [s \in Range(NameOrder) |-> CHOOSE i \in DOMAIN NameOrder : NameOrder[i] = s]

NameRank(s) == NameRanks[s]

\* sorted(list of names)
RECURSIVE InsertSorted(_, _)
InsertSorted(s, e) ==
  IF s = <<>> THEN <<e>>
  ELSE IF NameRank(e) < NameRank(Head(s)) THEN <<e>> \o s
  ELSE <<Head(s)>> \o InsertSorted(Tail(s), e)

RECURSIVE SortedNames(_)
SortedNames(s) ==
  IF s = <<>> THEN <<>>
  ELSE InsertSorted(SortedNames(SubSeq(s, 1, Len(s) - 1)), s[Len(s)])

\* the names of a set as a sorted list
RECURSIVE SetToSortedSeq(_)
SetToSortedSeq(S) ==
  IF S = {} THEN <<>>
  ELSE LET m == CHOOSE m \in S : \A o \in S : NameRank(m) <= NameRank(o)
       IN <<m>> \o SetToSortedSeq(S \ {m})

(* ------------------------------------------------------------------ *)
(* Catalog file and DataLoader                                          *)
(* ------------------------------------------------------------------ *)
\* the rows of the JSON catalog, in file order: name, tier and attributes
CatalogRows ==
  << [name |-> "a", tier |-> 1, A |-> 1, B |-> 1],
     [name |-> "a", tier |-> 2, A |-> 2, B |-> 0],
     [name |-> "b", tier |-> 1, A |-> 2, B |-> 0],
     [name |-> "c", tier |-> 1, A |-> 3, B |-> 2],
     [name |-> "d", tier |-> 1, A |-> -1, B |-> 3],
     [name |-> "d", tier |-> 2, A |-> 1, B |-> 0] >>

\* variant of LoadJson that filters by tier only
LoadJsonTierOnly(set) ==
  SelectSeq(CatalogRows, LAMBDA r : r.tier = set.tier)

\* DataLoader._load_json: keep the rows of the active tier not blacklisted
LoadJson(set) ==
  SelectSeq(CatalogRows,
            LAMBDA r : r.tier = set.tier /\ r.name \notin Range(set.blacklist))

(* ------------------------------------------------------------------ *)
(* Settings and Props                                                   *)
(* ------------------------------------------------------------------ *)
\* Settings.alt_jitter = 0.30, kept as the fraction JitterNum / JitterDen
JitterNum == 3
JitterDen == 10

\* Settings.recompute: the number of attempts follows the number of alternatives
Recompute(set) == [set EXCEPT !.alt_runs = set.alt_cnt]

EmptyDict == [k \in {} |-> 0]

\* Props.load: the rule file with the reserved rule forced to the slot count
PropsLoad(rules, num_slots) ==
  [name \in DOMAIN rules \cup {"slots"} |->
     IF name = "slots"
     THEN [expr |-> 1, low |-> num_slots, high |-> num_slots]
     ELSE rules[name]]

(* ------------------------------------------------------------------ *)
(* CoefficientCalculator                                                *)
(* ------------------------------------------------------------------ *)
\* CoefficientCalculator._value_from_row
ValueFromRow(row, meta) ==
  IF "column" \in DOMAIN meta
  THEN GetOr(meta, "sign", 1) * row[meta.column]
  ELSE GetOr(meta, "sign", 1) * (row[meta.col_out] - row[meta.col_in])

\* CoefficientCalculator.compute dispatches on "expr", then on "column", and
\* reads meta["group"] otherwise: a rule with none of the three keys raises
\* KeyError
ComputeRaises(props_data) ==
  \E p \in DOMAIN props_data :
    DOMAIN props_data[p] \cap {"expr", "column", "group"} = {}

\* CoefficientCalculator.compute: one list of per-row coefficients per rule
Compute(props_data, df) ==
  [p \in DOMAIN props_data |->
     LET meta == props_data[p] IN
     [i \in 0..(Len(df) - 1) |->
        IF "expr" \in DOMAIN meta THEN meta.expr
        ELSE IF "column" \in DOMAIN meta THEN ValueFromRow(df[i + 1], meta)
        ELSE SumTo([k \in 0..(Len(meta.group) - 1) |->
                      ValueFromRow(df[i + 1], meta.group[k + 1])],
                   Len(meta.group))]]

(* ------------------------------------------------------------------ *)
(* Constraints of the integer programs                                  *)
(* ------------------------------------------------------------------ *)
\* variant of Vectors whose upper bound is one copy too many
VectorsOneMore(N, max_copy) == [0..(N - 1) -> 0..(max_copy + 1)]

\* the integer variables x_i with bounds [0, max_copy]
Vectors(N, max_copy) == [0..(N - 1) -> 0..max_copy]

\* pl.lpSum(coef[i] * x[i] for i in range(N))
LpSum(c, x, N) == SumTo([i \in 0..(N - 1) |-> c[i] * x[i]], N)

\* `(low := meta.get('low')) is not None`
HasLow(meta) == Opt(meta, "low") # <<>>

\* `(high := meta.get('high')) not in (None, 0)`
HasHigh(meta) == Opt(meta, "high") # <<>> /\ meta.high # 0

\* variant of RuleBoundsOK that adds the low inequalities only
RuleBoundsLowOnly(props_data, c, x, N) ==
  \A p \in DOMAIN props_data :
    HasLow(props_data[p]) => LpSum(c[p], x, N) >= props_data[p].low

\* expr >= low and expr <= high of every rule
RuleBoundsOK(props_data, c, x, N) ==
  \A p \in DOMAIN props_data :
    LET e == LpSum(c[p], x, N) IN
    /\ HasLow(props_data[p]) => e >= props_data[p].low
    /\ HasHigh(props_data[p]) => e <= props_data[p].high

\* pl.lpSum(x.values()) == num_slots
SlotsOK(x, N, set) == SumTo(x, N) = set.num_slots

\* variant of CutOK with the bound num_slots - 2
CutStrict(x, cut, set) == SumOver(x, cut) <= set.num_slots - 2

\* variant of CutOK with the bound num_slots
CutOffByOne(x, cut, set) == SumOver(x, cut) <= set.num_slots

\* pl.lpSum(x[i] for i in cut) <= num_slots - 1
CutOK(x, cut, set) == SumOver(x, cut) <= set.num_slots - 1

\* `if cuts: for cut in cuts: ...`
CutsOK(x, cutlist, set) ==
  \A k \in DOMAIN cutlist : CutOK(x, cutlist[k], set)

\* the points allowed by the rule bounds and the slot equality
BaseFeasible(props_data, c, set, N) ==
  {x \in Vectors(N, set.max_copy) :
     RuleBoundsOK(props_data, c, x, N) /\ SlotsOK(x, N, set)}

\* the points of the base constraints that also satisfy every cut
Feasible(props_data, c, set, N, cutlist) ==
  {x \in BaseFeasible(props_data, c, set, N) : CutsOK(x, cutlist, set)}

(* ------------------------------------------------------------------ *)
(* Achievable maxima                                                    *)
(* ------------------------------------------------------------------ *)
\* the program solved by ILPSolver._get_achievable_max: 0.0 unless Optimal
SolveMax(p, props_data, c, set, N) ==
  LET F == BaseFeasible(props_data, c, set, N) IN
  IF F = {} THEN 0 ELSE SetMax({LpSum(c[p], x, N) : x \in F})

\* ILPSolver._get_achievable_max: amc is the solver's own cache attribute
\* (<<>> when the attribute does not exist yet)
GetAchievableMax(p, amc, props_data, c, set, N) ==
  IF amc # <<>> /\ p \in DOMAIN amc[1] THEN amc[1][p]
  ELSE SolveMax(p, props_data, c, set, N)

\* ILPSolver._compute_all_achievable (the maxima of the returned pair)
ComputeAllAchievable(amc, props_data, c, set, N) ==
  [p \in DOMAIN props_data |-> GetAchievableMax(p, amc, props_data, c, set, N)]

(* ------------------------------------------------------------------ *)
(* Extrema cache (cache_utils)                                          *)
(* ------------------------------------------------------------------ *)
\* the 'props' list of the payload: name, low, high of every rule, by name
PropsPayload(props_data) ==
  LET names == SetToSortedSeq(DOMAIN props_data) IN
  [k \in 1..Len(names) |->
     <<names[k], Opt(props_data[names[k]], "low"),
       Opt(props_data[names[k]], "high")>>]

\* variant of GenerateAchievableHash whose payload has no tier
HashWithoutTier(tier, slots, max_copy, blacklist, props_data, props_file) ==
  <<blacklist, max_copy, PropsPayload(props_data), props_file, slots>>

\* generate_achievable_hash: the digest of the serialized payload; the
\* serialization is kept as the tuple of its fields, in key order, and the
\* digest is taken to be free of collisions
GenerateAchievableHash(tier, slots, max_copy, blacklist, props_data, props_file) ==
  <<blacklist, max_copy, PropsPayload(props_data), props_file, slots, tier>>

\* variant of HashKey that hashes the blacklist as it is
HashKeyUnsorted(set, props_data) ==
  GenerateAchievableHash(set.tier, set.num_slots, set.max_copy,
                         set.blacklist, props_data, set.props_file)

\* the fingerprint get_or_compute_achievable looks up
HashKey(set, props_data) ==
  GenerateAchievableHash(set.tier, set.num_slots, set.max_copy,
                         SortedNames(set.blacklist), props_data, set.props_file)

\* variant of LoadSessionAchievable that never finds an entry
LoadSessionMiss(store, hash_key) == <<>>

\* load_session_achievable: <<>> for None
LoadSessionAchievable(store, hash_key) == Opt(store, hash_key)

\* variant of SaveSessionAchievable that writes nothing
SaveSessionNothing(store, hash_key, data) == store

\* save_session_achievable
SaveSessionAchievable(store, hash_key, data) ==
  [k \in DOMAIN store \cup {hash_key} |->
     IF k = hash_key THEN data ELSE store[k]]

\* get_or_compute_achievable: the returned maxima, the store afterwards and
\* whether compute_fn was invoked; computed is the value compute_fn returns
GetOrComputeAchievable(set, props_data, store, computed) ==
  LET hash_key == HashKey(set, props_data)
      result == LoadSessionAchievable(store, hash_key)
  IN IF result # <<>>
     THEN [result |-> result[1], store |-> store, called |-> 0]
     ELSE [result |-> computed,
           store |-> SaveSessionAchievable(store, hash_key, computed),
           called |-> 1]

\* the maxima _get_achievable_max has stored in the solver's attribute when
\* the solve of rule number k + 1 (in rule order) raises
PartialMaxima(k, props_data, c, set, N) ==
  LET names == SetToSortedSeq(DOMAIN props_data) IN
  [p \in {names[j] : j \in 1..k} |-> SolveMax(p, props_data, c, set, N)]

\* variant of GetOrComputeRaising that saves what was computed so far
SaveThenRaise(set, props_data, store, partial) ==
  LET hash_key == HashKey(set, props_data)
      result == LoadSessionAchievable(store, hash_key)
  IN IF result # <<>>
     THEN [store |-> store, raised |-> FALSE]
     ELSE [store |-> SaveSessionAchievable(store, hash_key, partial),
           raised |-> TRUE]

\* get_or_compute_achievable when compute_fn raises: the exception leaves
\* the function before save_session_achievable; partial is what compute_fn
\* had computed by then
GetOrComputeRaising(set, props_data, store, partial) ==
  LET hash_key == HashKey(set, props_data)
      result == LoadSessionAchievable(store, hash_key)
  IN IF result # <<>>
     THEN [store |-> store, raised |-> FALSE]
     ELSE [store |-> store, raised |-> TRUE]

(* ------------------------------------------------------------------ *)
(* Objective                                                            *)
(* ------------------------------------------------------------------ *)
\* the rules that enter the objective: `if prio <= 0: continue`
Weighted(props_data) ==
  {p \in DOMAIN props_data : GetOr(props_data[p], "priority", 0) > 0}

\* `achievable or 1.0`
OrOne(v) == IF v # 0 THEN v ELSE 1

\* variant of ZeroToOne without the fallback
KeepZero(v) == v

\* `if scale == 0: scale = 1.0`
ZeroToOne(v) == IF v = 0 THEN 1 ELSE v

\* scale = min(high_raw, achievable) if high_raw not in (None, 0)
\*         else achievable or 1.0;  if scale == 0: scale = 1.0
Scale(meta, achievable) ==
  ZeroToOne(IF HasHigh(meta) THEN Min2(meta.high, achievable)
            ELSE OrOne(achievable))

\* the scale of rule p under the maxima amc: amc.get(p, 1.0)
ScaleOf(p, props_data, amc) == Scale(props_data[p], GetOr(amc, p, 1))

\* variant of ScaleOnce that ignores the upper bound
ScaleOnceNoHigh(meta, achievable) == ZeroToOne(OrOne(achievable))

\* solve_once: scale = min(high_raw, achievable) if high_raw not in (None, 0)
\*             else achievable or 1.0;  if scale == 0: scale = 1.0
ScaleOnce(meta, achievable) ==
  LET high_raw == Opt(meta, "high")
      scale == IF high_raw # <<>> /\ high_raw[1] # 0
               THEN Min2(high_raw[1], achievable)
               ELSE OrOne(achievable)
  IN IF scale = 0 THEN 1 ELSE scale

\* the scale solve_once gives rule p under the maxima amc
ScaleOnceOf(p, props_data, amc) == ScaleOnce(props_data[p], GetOr(amc, p, 1))

Sgn(v) == IF v < 0 THEN -1 ELSE 1

\* the product of |scale| over the weighted rules other than p
OthersAbs(p, props_data, amc) ==
  ProdOver([q \in Weighted(props_data) |-> Abs(ScaleOf(q, props_data, amc))],
           Weighted(props_data) \ {p})

\* Scores are reported in units of 1 / ScoreUnit
ScoreUnit(props_data, amc) ==
  4 * JitterDen *
  ProdOver([q \in Weighted(props_data) |-> Abs(ScaleOf(q, props_data, amc))],
           Weighted(props_data))

\* twice the scaled numerator of target - val_norm (solve_balanced):
\* target - val_norm = TargetGap / (2 * scale)
TargetGap(meta, scale, val) ==
  IF HasLow(meta) /\ HasHigh(meta) THEN meta.low + meta.high - 2 * val
  ELSE IF HasLow(meta) THEN meta.low + scale - 2 * val
  ELSE meta.high - 2 * val

\* one term of the balanced objective at the point with raw value val, in
\* units of 1 / (4 * |scale|): prio * val_norm - (prio * 0.5) * delta with
\* delta = max(0, target - val_norm), the least value the slack can take
BalancedTerm(meta, scale, val) ==
  LET prio == GetOr(meta, "priority", 0) IN
  IF ~HasLow(meta) /\ ~HasHigh(meta)
  THEN prio * 4 * val * Sgn(scale)
  ELSE LET g == TargetGap(meta, scale, val) * Sgn(scale) IN
       prio * (4 * val * Sgn(scale) - (IF g > 0 THEN g ELSE 0))

\* the balanced objective of point x in units of 1 / ScoreUnit
BalancedScore(x, props_data, c, amc, N) ==
  SumOver([p \in Weighted(props_data) |->
             BalancedTerm(props_data[p], ScaleOf(p, props_data, amc),
                          LpSum(c[p], x, N))
             * JitterDen * OthersAbs(p, props_data, amc)],
          Weighted(props_data))

\* weight = prio * (1 + jitter * U), in units of 1 / JitterDen
Weight(prio, u) == prio * (JitterDen + JitterNum * u)

\* the objective of solve_once at point x for the draws U, in units of
\* 1 / ScoreUnit: the sum of weight * (coef / scale) * x
OnceScore(x, U, props_data, c, amc, N) ==
  SumOver([p \in Weighted(props_data) |->
             Weight(GetOr(props_data[p], "priority", 0), U[p])
             * LpSum(c[p], x, N) * Sgn(ScaleOnceOf(p, props_data, amc))
             * 4 * (ScoreUnit(props_data, amc)
                    \div (4 * JitterDen * Abs(ScaleOnceOf(p, props_data, amc))))],
          Weighted(props_data))

(* ------------------------------------------------------------------ *)
(* ILPSolver.solve_balanced and ILPSolver.solve_once                    *)
(* ------------------------------------------------------------------ *)
\* {name: int(x[i].value()) for i in range(N) if x[i].value()}
BuildOf(x, df) ==
  LET S == {i \in 0..(Len(df) - 1) : x[i] # 0} IN
  [nm \in {df[i + 1].name : i \in S} |->
     x[SetMax({i \in S : df[i + 1].name = nm})]]

\* {p: sum(coef[p][i] * x[i].value())} for every rule
StatsOf(x, props_data, c, N) ==
  [p \in DOMAIN props_data |-> LpSum(c[p], x, N)]

\* `return {}, {}, 0.0`
EmptyResult == [build |-> EmptyDict, stats |-> EmptyDict, score |-> 0]

\* variant of Extract without the status check
ExtractUnchecked(status, x, score, props_data, c, df) ==
  [build |-> BuildOf(x, df),
   stats |-> StatsOf(x, props_data, c, Len(df)),
   score |-> score]

\* what follows prob.solve: the status check and the extraction of the
\* build, the stats and the score from the values the solver left in x
Extract(status, x, score, props_data, c, df) ==
  IF status # "Optimal" THEN EmptyResult
  ELSE [build |-> BuildOf(x, df),
        stats |-> StatsOf(x, props_data, c, Len(df)),
        score |-> score]

\* the points with the greatest value of score[x] in F
ArgMax(F, score) == {x \in F : \A y \in F : score[y] <= score[x]}

\* solve_balanced: the results the call can return. The program is solved
\* to optimality; without a feasible point the status is Infeasible and the
\* values of the variables are whatever the solver left.
SolveBalanced(props_data, c, set, df, amc, cutlist) ==
  LET N == Len(df)
      F == Feasible(props_data, c, set, N, cutlist)
      sc == [x \in F |-> BalancedScore(x, props_data, c, amc, N)]
  IN IF F = {}
     THEN {Extract("Infeasible", x, 0, props_data, c, df) :
             x \in Vectors(N, set.max_copy)}
     ELSE {Extract("Optimal", x, sc[x], props_data, c, df) : x \in ArgMax(F, sc)}

\* samples of random.uniform(-1, 1)
UChoices == {-1, 1}

\* variant of BuildBaseModel that adds no rule bound
BuildBaseNoBounds(props_data, set) ==
  [lows |-> EmptyDict, highs |-> EmptyDict, slots |-> set.num_slots,
   cuts |-> <<>>]

\* solve_once, the first call on a solver: the base model with expr >= low
\* and expr <= high of every rule and the slot equality. A model is kept as
\* the right-hand sides of its constraints, by kind.
BuildBaseModel(props_data, set) ==
  [lows  |-> [p \in {q \in DOMAIN props_data : HasLow(props_data[q])} |->
                props_data[p].low],
   highs |-> [p \in {q \in DOMAIN props_data : HasHigh(props_data[q])} |->
                props_data[p].high],
   slots |-> set.num_slots,
   cuts  |-> <<>>]

\* `if not hasattr(self, '_base_model')`: built once, reused afterwards
BaseModelOf(base, props_data, set) ==
  IF base = <<>> THEN BuildBaseModel(props_data, set) ELSE base[1]

\* model = self._base_model.copy() and `model += ... <= num_slots - 1` for
\* every cut of the call
WorkingModel(base, cutlist) == [base EXCEPT !.cuts = @ \o cutlist]

\* variant of BaseAfterSolve where the working model is the base itself
BaseAliased(base, working) == working

\* self._base_model after the call: copy() gave the working model its own
\* constraints and objective, so the base keeps what it had
BaseAfterSolve(base, working) == base

\* the points a model allows for the variables self._x
ModelFeasible(model, c, set, N) ==
  {x \in Vectors(N, set.max_copy) :
     /\ \A p \in DOMAIN model.lows : LpSum(c[p], x, N) >= model.lows[p]
     /\ \A p \in DOMAIN model.highs : LpSum(c[p], x, N) <= model.highs[p]
     /\ SumTo(x, N) = model.slots
     /\ CutsOK(x, model.cuts, set)}

\* solve_once: the results the call can return. The solve stops at the
\* time limit or inside the gap, so an Optimal status comes with any point
\* of the feasible set; the limit can also end the solve with no point.
SolveOnce(model, props_data, c, set, df, amc) ==
  LET N == Len(df)
      F == ModelFeasible(model, c, set, N)
  IN IF F = {}
     THEN {Extract("Infeasible", x, 0, props_data, c, df) :
             x \in Vectors(N, set.max_copy)}
     ELSE {Extract("Optimal", x, OnceScore(x, U, props_data, c, amc, N),
                   props_data, c, df) :
             x \in F, U \in [Weighted(props_data) -> UChoices]}
          \cup {Extract("Not Solved", x, 0, props_data, c, df) :
                  x \in Vectors(N, set.max_copy)}

(* ------------------------------------------------------------------ *)
(* ArtifactBuildManager.run                                             *)
(* ------------------------------------------------------------------ *)
\* [i for i, name in enumerate(df["Имя"]) if build.get(name)]
IndexSet(build, df) ==
  {i \in 0..(Len(df) - 1) :
     df[i + 1].name \in DOMAIN build /\ build[df[i + 1].name] # 0}

\* {"run": n + 1, "build": b, "score": sc, **s}
ResultRow(n, r) == r.stats @@ [run |-> n, build |-> r.build, score |-> r.score]

RECURSIVE InsertByScore(_, _)

\* variant of InsertByScore that puts the smallest score first
InsertAscending(s, e) ==
  IF s = <<>> THEN <<e>>
  ELSE IF Head(s).score > e.score THEN <<e>> \o s
  ELSE <<Head(s)>> \o InsertByScore(Tail(s), e)

\* sorted(results, key=score, reverse=True): stable, greatest score first
InsertByScore(s, e) ==
  IF s = <<>> THEN <<e>>
  ELSE IF Head(s).score < e.score THEN <<e>> \o s
  ELSE <<Head(s)>> \o InsertByScore(Tail(s), e)

RECURSIVE SortedByScore(_)
SortedByScore(s) ==
  IF s = <<>> THEN <<>>
  ELSE InsertByScore(SortedByScore(SubSeq(s, 1, Len(s) - 1)), s[Len(s)])

\* variant of TopAlternatives that truncates without sorting
TopUnsorted(rs, alt_cnt) == SubSeq(rs, 1, Min2(alt_cnt, Len(rs)))

\* sorted(...)[:alt_cnt]
TopAlternatives(rs, alt_cnt) ==
  SubSeq(SortedByScore(rs), 1, Min2(alt_cnt, Len(rs)))

\* variant of SeedCuts that starts the loop without a cut
SeedNoCuts(det_cut) == <<>>

\* the cut list run starts the loop with
SeedCuts(det_cut) == <<det_cut>>

\* cuts.append(...)
AppendCut(cutlist, cut) == Append(cutlist, cut)

(* ------------------------------------------------------------------ *)
(* The editor table and the validation (helpers)                        *)
(* ------------------------------------------------------------------ *)
\* Props.display: meta.get("rus", meta.get("column", name))
Display(props_data) ==
  [name \in DOMAIN props_data |->
     GetOr(props_data[name], "rus", GetOr(props_data[name], "column", name))]

\* the order in which the rule dict is iterated
RuleOrder(props_data) == SetToSortedSeq(DOMAIN props_data)

\* hidden = {"slots"}
Hidden == {"slots"}

\* the row props_to_df builds for one rule
RowOf(props_data, name) ==
  LET meta == props_data[name] IN
  [Use |-> GetOr(meta, "use", FALSE),
   Property |-> Display(props_data)[name],
   Priority |-> GetOr(meta, "priority", 0),
   MinEnabled |-> Opt(meta, "low") # <<>>,
   Min |-> GetOr(meta, "low", 0),
   MaxEnabled |-> Opt(meta, "high") # <<>>,
   Max |-> GetOr(meta, "high", 0)]

\* variant of PropsToDf that hides no rule
PropsToDfAll(props_data) ==
  LET names == RuleOrder(props_data) IN
  [k \in 1..Len(names) |-> RowOf(props_data, names[k])]

\* props_to_df: one row per rule that is not hidden
PropsToDf(props_data) ==
  LET names == SelectSeq(RuleOrder(props_data), LAMBDA n : n \notin Hidden) IN
  [k \in 1..Len(names) |-> RowOf(props_data, names[k])]

\* reverse_display.get(rus_name): <<>> for None; of two rules with the same
\* display name the later one stays in the dict
ReverseDisplay(props_data, rus_name) ==
  LET ks == {k \in DOMAIN props_data : Display(props_data)[k] = rus_name} IN
  IF ks = {} THEN <<>>
  ELSE <<CHOOSE k \in ks : \A j \in ks : NameRank(j) <= NameRank(k)>>

\* variant of UpdateMeta that takes the priority of the row as it is
UpdateMetaKeepPriority(meta, row) ==
  [use |-> row.Use, priority |-> row.Priority]
  @@ (IF row.MinEnabled THEN [low |-> row.Min] ELSE EmptyDict)
  @@ (IF row.MaxEnabled THEN [high |-> row.Max] ELSE EmptyDict)
  @@ [k \in DOMAIN meta \ {"use", "priority", "low", "high"} |-> meta[k]]

\* what df_to_props writes into the rule of one row
UpdateMeta(meta, row) ==
  [use |-> row.Use, priority |-> IF ~row.Use THEN 0 ELSE row.Priority]
  @@ (IF row.MinEnabled THEN [low |-> row.Min] ELSE EmptyDict)
  @@ (IF row.MaxEnabled THEN [high |-> row.Max] ELSE EmptyDict)
  @@ [k \in DOMAIN meta \ {"use", "priority", "low", "high"} |-> meta[k]]

\* df_to_props: the rule set after the rows were written back, in row order
RECURSIVE DfToProps(_, _)
DfToProps(table, props_data) ==
  IF table = <<>> THEN props_data
  ELSE LET row == Head(table)
           key == ReverseDisplay(props_data, row.Property)
       IN DfToProps(Tail(table),
                    IF key = <<>> THEN props_data
                    ELSE [props_data EXCEPT ![key[1]] = UpdateMeta(@, row)])

\* validate_adv_props: the issues, in the order they are appended
ValidateAdvProps(table) ==
  LET bad == SelectSeq(table, LAMBDA r : r.Use /\ r.MinEnabled /\ r.MaxEnabled
                                         /\ r.Min > r.Max)
  IN (IF \A k \in DOMAIN table : ~table[k].Use
      THEN <<[issue |-> "no_use"]>> ELSE <<>>)
     \o [k \in 1..Len(bad) |->
           [issue |-> "min_above_max", property |-> bad[k].Property,
            min |-> bad[k].Min, max |-> bad[k].Max]]

\* validate_fixed_count
ValidateFixedCount(fixed, num_slots) ==
  IF Len(fixed) > num_slots - 1
  THEN <<[issue |-> "fixed_count", total |-> Len(fixed),
          limit |-> num_slots - 1]>>
  ELSE <<>>

\* Counter(fixed)[e]
CountOf(fixed, e) == Cardinality({k \in DOMAIN fixed : fixed[k] = e})

\* the keys of Counter(fixed), in the order of their first occurrence
RECURSIVE Distinct(_)
Distinct(s) ==
  IF s = <<>> THEN <<>>
  ELSE LET d == Distinct(SubSeq(s, 1, Len(s) - 1)) IN
       IF s[Len(s)] \in Range(d) THEN d ELSE Append(d, s[Len(s)])

\* validate_fixed_copies
ValidateFixedCopies(fixed, max_copy) ==
  LET over == SelectSeq(Distinct(fixed),
                        LAMBDA e : CountOf(fixed, e) > max_copy)
  IN [k \in 1..Len(over) |->
        [issue |-> "fixed_copies", name |-> over[k][1], tier |-> over[k][2],
         cnt |-> CountOf(fixed, over[k]), limit |-> max_copy]]

\* validate_all; table is <<>> for None and <<df>> for a DataFrame
ValidateAll(table, fixed, num_slots, max_copy) ==
  IF table = <<>> THEN <<[issue |-> "unreadable"]>>
  ELSE ValidateAdvProps(table[1])
       \o ValidateFixedCount(fixed, num_slots)
       \o ValidateFixedCopies(fixed, max_copy)

\* variant of AfterValidation that goes on whatever the issues
IgnoreErrors(errs, target) == target

\* `if errors: ...; return`: where the submit handler goes after validation
AfterValidation(errs, target) == IF errs # <<>> THEN "form" ELSE target

(* ------------------------------------------------------------------ *)
(* State                                                                *)
(* ------------------------------------------------------------------ *)
VARIABLES
  settings,          \* the Settings of the session
  props,             \* Props.data, the rule set
  df,                \* ArtifactBuildManager.df, the filtered catalog
  coef,              \* CoefficientCalculator.coef
  achievable_cache,  \* st.session_state['achievable_cache']
  compute_calls,     \* how often compute_fn was invoked
  amc,               \* ILPSolver._achievable_max_cache (<<>>: no attribute)
  best,              \* ArtifactBuildManager.best
  cuts,              \* the local cuts of run
  results,           \* the local results of run
  alts,              \* ArtifactBuildManager.alts
  pc,                \* position inside the page and inside compute_builds
  adv_df,            \* st.session_state["adv_df"]: <<>> for None, <<df>>
  fixed_artifacts,   \* st.session_state.fixed_artifacts
  errors,            \* the issues of the last validation
  session,           \* st.session_state: best, alts, show_builds
  page,              \* the page that serves the session
  runs,              \* how often compute_builds was called
  base_model,        \* ILPSolver._base_model (<<>>: no attribute)
  threads,           \* two script runs that share one session store
  job                \* the precompute job and the files it writes

vars == <<settings, props, df, coef, achievable_cache, compute_calls, amc,
          best, cuts, results, alts, pc, adv_df, fixed_artifacts, errors,
          session, page, runs, base_model, threads, job>>

\* the state of the page around compute_builds
pagevars == <<adv_df, fixed_artifacts, errors, session, page, runs>>

\* the state outside the script run of one session
sidevars == <<threads, job>>

\* st.session_state before the first results
NoResults == [best |-> EmptyDict, alts |-> <<>>, show_builds |-> FALSE]

\* the configurations of the model
Tiers == {1, 2}
BlacklistChoices == {<<"c", "d">>, <<"d", "c">>, <<"c", "b">>}
BoundChoices ==
  { EmptyDict,
    [low |-> -1, high |-> 0],
    [high |-> -1],
    [low |-> 2, high |-> 3],
    [low |-> 3],
    [low |-> 0, high |-> 0] }
PriorityChoices == {1}
SignedPriorityChoices == {0, 1}

\* a rule over catalog column A as df_to_props leaves it
ColumnRule(use, prio, bounds) ==
  bounds @@ [column |-> "A", use |-> use, priority |-> IF use THEN prio ELSE 0]

\* a signed rule over catalog column B without bounds
SignedRule(prio) ==
  [column |-> "B", sign |-> -1, use |-> TRUE, priority |-> prio]

SettingsChoices ==
  {Recompute([tier |-> t, num_slots |-> n, max_copy |-> m, blacklist |-> bl,
              alt_cnt |-> k, alt_runs |-> k, props_file |-> "props"]) :
     t \in Tiers, n \in 1..MaxSlots, m \in 1..MaxCopy,
     bl \in BlacklistChoices, k \in 0..MaxAlt}

Init ==
  /\ settings \in SettingsChoices
  /\ \E use \in BOOLEAN, prio \in PriorityChoices, b \in BoundChoices,
        qprio \in SignedPriorityChoices :
       props = PropsLoad([p |-> ColumnRule(use, prio, b), q |-> SignedRule(qprio)],
                         settings.num_slots)
  /\ df = <<>>
  /\ coef = EmptyDict
  /\ achievable_cache = EmptyDict
  /\ compute_calls = 0
  /\ amc = <<>>
  /\ best = EmptyDict
  /\ cuts = <<>>
  /\ results = <<>>
  /\ alts = <<>>
  /\ pc = "start"
  /\ adv_df = <<PropsToDf(props)>>
  /\ fixed_artifacts = <<>>
  /\ errors = <<>>
  /\ session = NoResults
  /\ page = "app"
  /\ runs = 1
  /\ base_model = <<>>
  /\ threads = <<>>
  /\ job = <<>>

\* ArtifactBuildManager.__init__: load the catalog, compute the coefficients
\* and build a new solver; a KeyError of compute ends compute_builds
NewManager ==
  /\ pc = "start"
  /\ df' = LoadJson(settings)
  /\ IF ComputeRaises(props)
     THEN /\ coef' = EmptyDict
          /\ pc' = "failed"
     ELSE /\ coef' = Compute(props, LoadJson(settings))
          /\ pc' = "ready"
  /\ best' = EmptyDict
  /\ alts' = <<>>
  /\ amc' = <<>>
  /\ cuts' = <<>>
  /\ results' = <<>>
  /\ base_model' = <<>>
  /\ UNCHANGED <<settings, props, achievable_cache, compute_calls>>
  /\ UNCHANGED pagevars
  /\ UNCHANGED sidevars

\* the end of run: the sort and the truncation, once the loop is over
Finish(rs) ==
  IF Len(rs) >= settings.alt_runs
  THEN /\ alts' = TopAlternatives(rs, settings.alt_cnt)
       /\ pc' = "done"
  ELSE /\ alts' = alts
       /\ pc' = "loop"

\* run up to the loop: the balanced solve, best and the first cut
RunBalanced ==
  /\ pc = "ready"
  /\ LET g == GetOrComputeAchievable(settings, props, achievable_cache,
                ComputeAllAchievable(amc, props, coef, settings, Len(df)))
     IN /\ achievable_cache' = g.store
        /\ compute_calls' = compute_calls + g.called
        /\ amc' = <<g.result>>
        /\ \E r \in SolveBalanced(props, coef, settings, df, g.result, <<>>) :
             /\ best' = r
             /\ cuts' = SeedCuts(IndexSet(r.build, df))
  /\ results' = <<>>
  /\ Finish(<<>>)
  /\ UNCHANGED <<settings, props, df, coef, base_model>>
  /\ UNCHANGED pagevars
  /\ UNCHANGED sidevars

\* one iteration of the loop of run: solve_once under the cuts so far
RunAlternative ==
  /\ pc = "loop"
  /\ Len(results) < settings.alt_runs
  /\ LET g == GetOrComputeAchievable(settings, props, achievable_cache,
                ComputeAllAchievable(amc, props, coef, settings, Len(df)))
         base == BaseModelOf(base_model, props, settings)
         model == WorkingModel(base, cuts)
     IN /\ achievable_cache' = g.store
        /\ compute_calls' = compute_calls + g.called
        /\ amc' = <<g.result>>
        /\ base_model' = <<BaseAfterSolve(base, model)>>
        /\ \E r \in SolveOnce(model, props, coef, settings, df, g.result) :
             /\ results' = Append(results, ResultRow(Len(results) + 1, r))
             /\ cuts' = AppendCut(cuts, IndexSet(r.build, df))
             /\ Finish(Append(results, ResultRow(Len(results) + 1, r)))
  /\ UNCHANGED <<settings, props, df, coef, best>>
  /\ UNCHANGED pagevars
  /\ UNCHANGED sidevars

Next == NewManager \/ RunBalanced \/ RunAlternative

Spec == Init /\ [][Next]_vars

(* ------------------------------------------------------------------ *)
(* The pages: the editor, the submit handlers and the stored results    *)
(* ------------------------------------------------------------------ *)
\* yaml.safe_load of the rule file props/<props_file> (without `slots`)
RuleFile(props_file) ==
  IF props_file = "delta"
  THEN [p |-> [col_out |-> "A", col_in |-> "B", sign |-> -1,
               use |-> TRUE, priority |-> 1],
        q |-> SignedRule(0)]
  ELSE IF props_file = "group"
  THEN [p |-> [group |-> <<[col_out |-> "A", col_in |-> "B", sign |-> -1],
                           [column |-> "A"]>>,
               use |-> TRUE, priority |-> 1],
        q |-> SignedRule(0)]
  ELSE [p |-> ColumnRule(TRUE, 1, EmptyDict), q |-> SignedRule(1)]

\* the two pages with a submit handler
Pages == {"app", "optimization"}

\* the number of alternatives asked for on the pages
PageAltChoices == {0, 1}

PageSettingsChoices ==
  {Recompute([tier |-> 1, num_slots |-> n, max_copy |-> m,
              blacklist |-> <<"c", "d">>, alt_cnt |-> k, alt_runs |-> k,
              props_file |-> "props"]) :
     n \in 1..MaxSlots, m \in 1..MaxCopy, k \in PageAltChoices}

\* what the user can put into the editable cells of one row
RowEdits ==
  { [Use |-> TRUE, Priority |-> 1, MinEnabled |-> FALSE, Min |-> 0,
     MaxEnabled |-> FALSE, Max |-> 0],
    [Use |-> FALSE, Priority |-> 1, MinEnabled |-> TRUE, Min |-> 3,
     MaxEnabled |-> TRUE, Max |-> 1],
    [Use |-> TRUE, Priority |-> 1, MinEnabled |-> TRUE, Min |-> 3,
     MaxEnabled |-> TRUE, Max |-> 1] }

\* the artifacts of the lists validate_all is called with
FixedChoices == {<<"a", 1>>, <<"b", 1>>}

\* the artifact the user fixes on the page
AddChoices == {<<"a", 1>>}

\* the rule set a script run of the page starts from
LoadedProps == PropsLoad(RuleFile(settings.props_file), settings.num_slots)

InitPage ==
  /\ settings \in PageSettingsChoices
  /\ page \in Pages
  /\ props = LoadedProps
  /\ adv_df = <<PropsToDf(props)>>
  /\ fixed_artifacts = <<>>
  /\ errors = <<>>
  /\ session = NoResults
  /\ runs = 0
  /\ base_model = <<>>
  /\ threads = <<>>
  /\ job = <<>>
  /\ df = <<>>
  /\ coef = EmptyDict
  /\ achievable_cache = EmptyDict
  /\ compute_calls = 0
  /\ amc = <<>>
  /\ best = EmptyDict
  /\ cuts = <<>>
  /\ results = <<>>
  /\ alts = <<>>
  /\ pc = "form"

\* st.data_editor with num_rows="fixed" and the Property column disabled:
\* the user changes the editable cells of one row
EditRow ==
  /\ pc = "form"
  /\ \E k \in DOMAIN adv_df[1], e \in RowEdits :
       adv_df' = <<[adv_df[1] EXCEPT
                      ![k] = e @@ [Property |-> adv_df[1][k].Property]]>>
  /\ UNCHANGED <<settings, props, df, coef, achievable_cache, compute_calls,
                 amc, best, cuts, results, alts, pc, fixed_artifacts, errors,
                 session, page, runs>>
  /\ UNCHANGED base_model
  /\ UNCHANGED sidevars

\* the button that appends to st.session_state.fixed_artifacts
AddFixed ==
  /\ pc = "form"
  /\ page = "optimization"
  /\ Len(fixed_artifacts) < MaxFixed
  /\ \E f \in AddChoices : fixed_artifacts' = Append(fixed_artifacts, f)
  /\ UNCHANGED <<settings, props, df, coef, achievable_cache, compute_calls,
                 amc, best, cuts, results, alts, pc, adv_df, errors,
                 session, page, runs>>
  /\ UNCHANGED base_model
  /\ UNCHANGED sidevars

\* the submit handler of app.py up to the call of compute_builds; the editor
\* has stored its table in the session before the handler runs
SubmitApp ==
  /\ pc = "form"
  /\ page = "app"
  /\ adv_df # <<>>
  /\ LET errs == ValidateAdvProps(adv_df[1])
         goto == AfterValidation(errs, "start")
     IN /\ goto = "start" => runs < MaxRuns
        /\ props' = DfToProps(adv_df[1], LoadedProps)
        /\ errors' = errs
        /\ pc' = goto
        /\ runs' = IF goto = "start" THEN runs + 1 ELSE runs
  /\ UNCHANGED <<settings, df, coef, achievable_cache, compute_calls, amc,
                 best, cuts, results, alts, adv_df, fixed_artifacts,
                 session, page>>
  /\ UNCHANGED base_model
  /\ UNCHANGED sidevars

\* the submit handler of pages/optimization_page.py; it calls
\* compute_builds with three arguments, the worker thread ends with a
\* TypeError and run_with_dynamic_spinner waits for `done` for ever
SubmitPage ==
  /\ pc = "form"
  /\ page = "optimization"
  /\ adv_df # <<>>
  /\ LET errs == ValidateAll(adv_df, fixed_artifacts, settings.num_slots,
                             settings.max_copy)
         goto == AfterValidation(errs, "hung")
     IN /\ goto = "hung" => runs < MaxRuns
        /\ props' = DfToProps(adv_df[1], LoadedProps)
        /\ errors' = errs
        /\ pc' = goto
        /\ runs' = IF goto = "hung" THEN runs + 1 ELSE runs
  /\ UNCHANGED <<settings, df, coef, achievable_cache, compute_calls, amc,
                 best, cuts, results, alts, adv_df, fixed_artifacts,
                 session, page>>
  /\ UNCHANGED base_model
  /\ UNCHANGED sidevars

\* the solver raises inside compute_fn on a miss of the session store: the
\* exception leaves get_or_compute_achievable, solve_balanced and
\* compute_builds
SolverFails ==
  /\ pc = "ready"
  /\ \E k \in 0..(Cardinality(DOMAIN props) - 1) :
       LET part == PartialMaxima(k, props, coef, settings, Len(df))
           g == GetOrComputeRaising(settings, props, achievable_cache, part)
       IN /\ g.raised
          /\ achievable_cache' = g.store
          /\ amc' = <<part>>
  /\ compute_calls' = compute_calls + 1
  /\ pc' = "failed"
  /\ UNCHANGED <<settings, props, df, coef, best, cuts, results, alts,
                 base_model>>
  /\ UNCHANGED pagevars
  /\ UNCHANGED sidevars

\* the handler after compute_builds has returned: the results are stored
StoreResults ==
  /\ pc = "done"
  /\ session' = [best |-> best, alts |-> alts, show_builds |-> TRUE]
  /\ pc' = "form"
  /\ UNCHANGED <<settings, props, df, coef, achievable_cache, compute_calls,
                 amc, best, cuts, results, alts, adv_df, fixed_artifacts,
                 errors, page, runs>>
  /\ UNCHANGED base_model
  /\ UNCHANGED sidevars

NextPage ==
  \/ EditRow
  \/ AddFixed
  \/ SubmitApp
  \/ SubmitPage
  \/ NewManager
  \/ RunBalanced
  \/ SolverFails
  \/ RunAlternative
  \/ StoreResults

SpecPage == InitPage /\ [][NextPage]_vars

(* ------------------------------------------------------------------ *)
(* validate_all on its own                                              *)
(* ------------------------------------------------------------------ *)
\* the tables of two rows the editor can hold
TableChoices ==
  {<<e1 @@ [Property |-> "A"], e2 @@ [Property |-> "B"]>> :
     e1 \in RowEdits, e2 \in RowEdits}

\* the lists of fixed artifacts
FixedLists == UNION {[1..k -> FixedChoices] : k \in 0..MaxFixed}

InitValidate ==
  /\ settings \in PageSettingsChoices
  /\ page = "optimization"
  /\ props = LoadedProps
  /\ adv_df \in {<<>>} \cup {<<t>> : t \in TableChoices}
  /\ fixed_artifacts \in FixedLists
  /\ errors = <<>>
  /\ session = NoResults
  /\ runs = 0
  /\ base_model = <<>>
  /\ threads = <<>>
  /\ job = <<>>
  /\ df = <<>>
  /\ coef = EmptyDict
  /\ achievable_cache = EmptyDict
  /\ compute_calls = 0
  /\ amc = <<>>
  /\ best = EmptyDict
  /\ cuts = <<>>
  /\ results = <<>>
  /\ alts = <<>>
  /\ pc = "validate"

\* one call of validate_all
ValidateForm ==
  /\ pc = "validate"
  /\ errors' = ValidateAll(adv_df, fixed_artifacts, settings.num_slots,
                           settings.max_copy)
  /\ pc' = "validated"
  /\ UNCHANGED <<settings, props, df, coef, achievable_cache, compute_calls,
                 amc, best, cuts, results, alts, adv_df, fixed_artifacts,
                 session, page, runs>>
  /\ UNCHANGED base_model
  /\ UNCHANGED sidevars

NextValidate == ValidateForm

SpecValidate == InitValidate /\ [][NextValidate]_vars

(* ------------------------------------------------------------------ *)
(* Rule files with delta and group rules                                *)
(* ------------------------------------------------------------------ *)
DerivedRuleFiles == {"delta", "group"}

InitRules ==
  /\ \E s \in SettingsChoices, f \in DerivedRuleFiles :
       settings = [s EXCEPT !.props_file = f]
  /\ props = LoadedProps
  /\ adv_df = <<PropsToDf(props)>>
  /\ fixed_artifacts = <<>>
  /\ errors = <<>>
  /\ session = NoResults
  /\ page = "app"
  /\ runs = 1
  /\ base_model = <<>>
  /\ threads = <<>>
  /\ job = <<>>
  /\ df = <<>>
  /\ coef = EmptyDict
  /\ achievable_cache = EmptyDict
  /\ compute_calls = 0
  /\ amc = <<>>
  /\ best = EmptyDict
  /\ cuts = <<>>
  /\ results = <<>>
  /\ alts = <<>>
  /\ pc = "start"

SpecRules == InitRules /\ [][Next]_vars

(* ------------------------------------------------------------------ *)
(* Vocabulary of the properties                                         *)
(* ------------------------------------------------------------------ *)
\* run has returned from the balanced solve
Solved == pc \in {"loop", "done"}

\* the Builds returned by the solves of this run so far
ReturnedBuilds ==
  IF Solved THEN {best.build} \cup {results[k].build : k \in DOMAIN results}
  ELSE {}

\* the vector of copy counts a Build stands for
XOf(build) ==
  [i \in 0..(Len(df) - 1) |->
     IF df[i + 1].name \in DOMAIN build THEN build[df[i + 1].name] ELSE 0]

\* the stats that come with the returned Builds: <<build, stats>> pairs
ReturnedStats ==
  IF Solved
  THEN {<<best.build, best.stats>>}
       \cup {<<results[k].build, [p \in DOMAIN results[k] \ {"run", "build", "score"}
                                    |-> results[k][p]]>> : k \in DOMAIN results}
  ELSE {}

\* the cut list the k-th attempt was solved under
CutsOfAttempt(k) == SubSeq(cuts, 1, k)

\* the permutations of a list without repetitions
Perms(s) == {t \in [DOMAIN s -> Range(s)] : Range(t) = Range(s)}

(* ------------------------------------------------------------------ *)
(* C1                                                                   *)
(* ------------------------------------------------------------------ *)
\* C1: every non-empty Build returned by solve_balanced or solve_once has
\* copy counts that sum to num_slots, each count within [0, max_copy].
C1_BuildShape ==
  \A b \in ReturnedBuilds :
    b # EmptyDict =>
      /\ SumOver(b, DOMAIN b) = settings.num_slots
      /\ \A nm \in DOMAIN b : b[nm] \in 0..settings.max_copy

\* a finished run with a non-empty best and a non-empty alternative that
\* holds some item more than once
C1_Witness ==
  /\ pc = "done"
  /\ best.build # EmptyDict
  /\ \E k \in DOMAIN results :
       /\ results[k].build # EmptyDict
       /\ \E nm \in DOMAIN results[k].build : results[k].build[nm] > 1

(* ------------------------------------------------------------------ *)
(* C2                                                                   *)
(* ------------------------------------------------------------------ *)
\* C2 as stated: for every rule with both low and high set (high = 0
\* included) the stat of every successful Build lies within [low, high].
C2_Original ==
  \A bs \in ReturnedStats :
    bs[1] # EmptyDict =>
      \A p \in DOMAIN props :
        ("low" \in DOMAIN props[p] /\ "high" \in DOMAIN props[p]) =>
          (props[p].low <= bs[2][p] /\ bs[2][p] <= props[p].high)

\* C2 amended: for every rule with a low bound and a non-zero high bound the
\* stat of every successful Build lies within [low, high]; a high of 0 is
\* no upper bound, and then only low <= stat holds.
C2_WithinBounds ==
  \A bs \in ReturnedStats :
    bs[1] # EmptyDict =>
      \A p \in DOMAIN props :
        ("low" \in DOMAIN props[p] /\ "high" \in DOMAIN props[p]) =>
          /\ props[p].low <= bs[2][p]
          /\ props[p].high # 0 => bs[2][p] <= props[p].high

\* a successful alternative under a rule bounded on both sides by values
\* that exclude some Build of the slot count
C2_Witness ==
  /\ pc = "done"
  /\ "low" \in DOMAIN props["p"] /\ "high" \in DOMAIN props["p"]
  /\ props["p"].high # 0
  /\ \E k \in DOMAIN results : results[k].build # EmptyDict
  /\ \E x \in Vectors(Len(df), settings.max_copy) :
       /\ SlotsOK(x, Len(df), settings)
       /\ LpSum(coef["p"], x, Len(df)) > props["p"].high

(* ------------------------------------------------------------------ *)
(* C3                                                                   *)
(* ------------------------------------------------------------------ *)
\* C3: when the constraints (bounds, slot equality, copy limits, cuts) admit
\* no point, solve_balanced and solve_once return ({}, {}, 0.0). Stated of
\* the solve that has just returned: the balanced one, or the last attempt.
C3_InfeasibleEmpty ==
  Solved =>
    IF results = <<>>
    THEN Feasible(props, coef, settings, Len(df), <<>>) = {} => best = EmptyResult
    ELSE LET k == Len(results) IN
         Feasible(props, coef, settings, Len(df), CutsOfAttempt(k)) = {}
           => results[k] = ResultRow(k, EmptyResult)

\* the balanced solve found a Build and the cuts left no point to a later
\* attempt, which returned the empty result
C3_Witness ==
  /\ Solved
  /\ best.build # EmptyDict
  /\ \E k \in DOMAIN results :
       /\ Feasible(props, coef, settings, Len(df), CutsOfAttempt(k)) = {}
       /\ results[k] = ResultRow(k, EmptyResult)

(* ------------------------------------------------------------------ *)
(* C4                                                                   *)
(* ------------------------------------------------------------------ *)
\* the index sets of best and of the collected results, in order
CollectedIndexSets ==
  [k \in 0..Len(results) |->
     IF k = 0 THEN IndexSet(best.build, df) ELSE IndexSet(results[k].build, df)]

\* C4 as stated: no two Builds among best and all collected results have
\* the same index set, results of infeasible attempts included.
C4_Original ==
  Solved =>
    \A i, j \in 0..Len(results) :
      i # j => CollectedIndexSets[i] # CollectedIndexSets[j]

\* C4 amended: no two non-empty Builds among best and the collected results
\* have the same index set; the empty Builds of attempts without a solution
\* all have the empty index set.
C4_Diverse ==
  Solved =>
    \A i, j \in 0..Len(results) :
      (i # j /\ CollectedIndexSets[i] # {}) =>
        CollectedIndexSets[i] # CollectedIndexSets[j]

\* best and two alternatives, all non-empty
C4_Witness ==
  /\ pc = "done"
  /\ Len(results) >= 2
  /\ \A k \in 0..Len(results) : CollectedIndexSets[k] # {}

(* ------------------------------------------------------------------ *)
(* C5                                                                   *)
(* ------------------------------------------------------------------ *)
\* C5: the calls of get_or_compute_achievable of one session with the same
\* settings and rule bounds invoke compute_fn once; every later call
\* returns the maxima the first call stored.
C5_ComputeOnce ==
  Solved =>
    LET h == HashKey(settings, props) IN
    /\ compute_calls = 1
    /\ DOMAIN achievable_cache = {h}
    /\ amc = <<achievable_cache[h]>>
    /\ amc[1] = ComputeAllAchievable(<<>>, props, coef, settings, Len(df))

\* the call of solve_balanced and two calls of solve_once have happened
C5_Witness ==
  /\ pc = "done"
  /\ Len(results) >= 2
  /\ compute_calls = 1

(* ------------------------------------------------------------------ *)
(* C6                                                                   *)
(* ------------------------------------------------------------------ *)
\* the values a bound is changed to
BoundValues == -2..4

\* a rule with one bound set to v, and with one bound removed
WithBound(meta, key, v) == (key :> v) @@ meta
WithoutBound(meta, key) == [k \in DOMAIN meta \ {key} |-> meta[k]]

\* C6: the fingerprint does not depend on the order of the blacklist, so a
\* permuted blacklist finds the same cache entry; a changed low or high
\* value of any rule changes the fingerprint.
C6_Fingerprint ==
  /\ \A bl \in Perms(settings.blacklist) :
       /\ HashKey([settings EXCEPT !.blacklist = bl], props)
            = HashKey(settings, props)
       /\ Solved =>
            LoadSessionAchievable(achievable_cache,
                                  HashKey([settings EXCEPT !.blacklist = bl], props))
              = amc
  /\ pc = "ready" =>
       \A r \in DOMAIN props, key \in {"low", "high"} :
         /\ \A v \in BoundValues :
              Opt(props[r], key) # <<v>> =>
                HashKey(settings, [props EXCEPT ![r] = WithBound(@, key, v)])
                  # HashKey(settings, props)
         /\ key \in DOMAIN props[r] =>
              HashKey(settings, [props EXCEPT ![r] = WithoutBound(@, key)])
                # HashKey(settings, props)

\* the maxima are stored for a blacklist of two names that is not sorted
C6_Witness ==
  /\ Solved
  /\ Len(settings.blacklist) = 2
  /\ settings.blacklist # SortedNames(settings.blacklist)
  /\ HashKey(settings, props) \in DOMAIN achievable_cache

(* ------------------------------------------------------------------ *)
(* C7                                                                   *)
(* ------------------------------------------------------------------ *)
\* the results a list of alternatives leaves out
LeftOut(rs, kept) == Range(rs) \ Range(kept)

\* kept is ordered by non-increasing score, holds at most cnt of the
\* results rs, and leaves out no result that beats a kept one
IsTopOf(kept, rs, cnt) ==
  /\ Len(kept) <= cnt
  /\ Range(kept) \subseteq Range(rs)
  /\ \A i, j \in DOMAIN kept : i < j => kept[i].score >= kept[j].score
  /\ \A r \in LeftOut(rs, kept) : \A a \in Range(kept) : r.score <= a.score

\* C7: the alternatives of a finished run are ordered by non-increasing
\* score, number at most alt_cnt and are the top-scoring of all collected
\* results; the sort is applied once, after the last attempt. The same holds
\* of the sort and truncation of the collected results to any smaller count.
C7_Alternatives ==
  /\ pc # "done" => alts = <<>>
  /\ pc = "done" =>
       /\ Len(results) = settings.alt_runs
       /\ IsTopOf(alts, results, settings.alt_cnt)
       /\ \A cnt \in 0..Len(results) :
            /\ IsTopOf(TopAlternatives(results, cnt), results, cnt)
            /\ Len(TopAlternatives(results, cnt)) = cnt

\* two alternatives were collected in increasing order of score, so the
\* sort had to reorder them
C7_Witness ==
  /\ pc = "done"
  /\ Len(results) >= 2
  /\ results[1].score < results[2].score
  /\ alts[1] = results[2]

(* ------------------------------------------------------------------ *)
(* C8                                                                   *)
(* ------------------------------------------------------------------ *)
\* after the balanced solve the cut list is the index set of best followed
\* by the index sets of the attempts so far, in order; best is a result of
\* the balanced program without cuts; the Build of attempt k satisfies the
\* k cuts before its own and not its own
C8_CutsInOrder ==
  /\ ~Solved => cuts = <<>>
  /\ Solved =>
       /\ Len(cuts) = Len(results) + 1
       /\ cuts[1] = IndexSet(best.build, df)
       /\ best \in SolveBalanced(props, coef, settings, df, amc[1], <<>>)
       /\ \A k \in DOMAIN results :
            /\ cuts[k + 1] = IndexSet(results[k].build, df)
            /\ results[k].run = k
            /\ results[k].build # EmptyDict =>
                 /\ CutsOK(XOf(results[k].build), CutsOfAttempt(k), settings)
                 /\ ~CutOK(XOf(results[k].build), cuts[k + 1], settings)

\* a step keeps every cut of the list in its place
C8_CutsKept ==
  \A k \in DOMAIN cuts : k \in DOMAIN cuts' /\ cuts'[k] = cuts[k]

\* C8: the balanced solve runs first and without cuts; the cut list then
\* starts with the index set of best; attempt k is solved under exactly k
\* cuts, that of best and those of the k - 1 earlier attempts in order; a
\* cut is never removed or changed once appended.
C8_CutDiscipline == []C8_CutsInOrder /\ [][C8_CutsKept]_vars

\* a finished run of two attempts that both found a Build
C8_Witness ==
  /\ pc = "done"
  /\ Len(cuts) = 3
  /\ best.build # EmptyDict
  /\ \A k \in DOMAIN results : results[k].build # EmptyDict

(* ------------------------------------------------------------------ *)
(* C9                                                                   *)
(* ------------------------------------------------------------------ *)
\* the Builds compute_builds returns: best and the alternatives
ComputedBuilds ==
  IF Solved THEN {best.build} \cup {alts[k].build : k \in DOMAIN alts} ELSE {}

\* C9: every item name of best or of an alternative belongs to a catalog
\* row of the active tier and is not in the blacklist.
C9_TierAndBlacklist ==
  \A b \in ComputedBuilds :
    \A nm \in DOMAIN b :
      /\ nm \notin Range(settings.blacklist)
      /\ \E i \in DOMAIN CatalogRows :
           CatalogRows[i].name = nm /\ CatalogRows[i].tier = settings.tier

\* best and an alternative are non-empty while the catalog holds a
\* blacklisted row of the active tier and rows of another tier
C9_Witness ==
  /\ pc = "done"
  /\ best.build # EmptyDict
  /\ \E k \in DOMAIN alts : alts[k].build # EmptyDict
  /\ \E i \in DOMAIN CatalogRows :
       /\ CatalogRows[i].tier = settings.tier
       /\ CatalogRows[i].name \in Range(settings.blacklist)
  /\ \E i \in DOMAIN CatalogRows : CatalogRows[i].tier # settings.tier

(* ------------------------------------------------------------------ *)
(* C10                                                                  *)
(* ------------------------------------------------------------------ *)
\* the weighted rules whose achievable maximum is 0 in the maxima in use
ZeroMaxRules ==
  IF Solved THEN {p \in Weighted(props) : GetOr(amc[1], p, 1) = 0} ELSE {}

C11_Complete ==
  \A h \in DOMAIN achievable_cache :
    DOMAIN achievable_cache[h] = DOMAIN props

\* a step changes the store only by saving, under the fingerprint looked
\* up, the maxima map compute_fn returned; a step in which compute_fn
\* raises leaves the store as it was
C11_Step ==
  /\ pc' = "failed" => achievable_cache' = achievable_cache
  /\ achievable_cache' # achievable_cache =>
       /\ pc = "ready"
       /\ pc' # "failed"
       /\ achievable_cache' =
            SaveSessionAchievable(
              achievable_cache, HashKey(settings, props),
              ComputeAllAchievable(amc, props, coef, settings, Len(df)))

\* C11: every entry ever present in the session extrema store is the
\* complete maxima map returned by a compute_fn call that finished
\* normally; when compute_fn raises, the failure is propagated and the
\* store stays exactly as it was, so no reader sees a partial entry
C11_StoreDiscipline == []C11_Complete /\ [][C11_Step]_vars

\* compute_fn raised on a miss after it had computed some maxima, with an
\* entry of an earlier run in the store
C11_Witness ==
  /\ pc = "failed"
  /\ achievable_cache # EmptyDict
  /\ amc # <<>>
  /\ DOMAIN amc[1] # {}
  /\ DOMAIN amc[1] # DOMAIN props

(* ------------------------------------------------------------------ *)
(* C12                                                                  *)
(* ------------------------------------------------------------------ *)
\* C12 as stated: the result of validate_all contains every issue that
\* validate_adv_props, validate_fixed_count and validate_fixed_copies each
\* report on the same input (validate_adv_props reports nothing on None)
C12_Original ==
  pc = "validated" =>
    /\ adv_df # <<>> =>
         Range(ValidateAdvProps(adv_df[1])) \subseteq Range(errors)
    /\ Range(ValidateFixedCount(fixed_artifacts, settings.num_slots))
         \subseteq Range(errors)
    /\ Range(ValidateFixedCopies(fixed_artifacts, settings.max_copy))
         \subseteq Range(errors)

(* ------------------------------------------------------------------ *)
(* C13                                                                  *)
(* ------------------------------------------------------------------ *)
\* compute_builds runs only after a validation without issues
C13_RunsAfterCleanValidation ==
  pc \in {"start", "ready", "loop", "done", "hung", "failed"} => errors = <<>>

\* a submit whose validation yields an issue: the handler returns to the
\* form, compute_builds is not called, and neither the stored results nor
\* a result of a manager changes
C13_Step ==
  (/\ pc = "form"
   /\ adv_df' = adv_df
   /\ fixed_artifacts' = fixed_artifacts
   /\ errors' # <<>>)
  => /\ pc' = "form"
     /\ runs' = runs
     /\ session' = session
     /\ best' = best
     /\ alts' = alts
     /\ results' = results

\* C13: when the validation of a submitted form yields at least one issue
\* the page does not invoke compute_builds and leaves the stored best,
\* alts and show_builds unchanged; no partial result is produced
C13_NoComputeOnIssues ==
  []C13_RunsAfterCleanValidation /\ [][C13_Step]_vars

\* a submit with issues after the results of an earlier run were stored
C13_Witness ==
  /\ pc = "form"
  /\ errors # <<>>
  /\ session.show_builds
  /\ session.best.build # EmptyDict
  /\ runs = 1

(* ------------------------------------------------------------------ *)
(* C14                                                                  *)
(* ------------------------------------------------------------------ *)
\* C14 as stated: after a validation without issues every rule that
\* df_to_props leaves with a low and a high bound has low <= high when the
\* solver is invoked, the rules whose Use flag is off included
C14_Original ==
  (pc \in {"ready", "loop", "done"} /\ errors = <<>>) =>
    \A r \in DOMAIN props :
      ("low" \in DOMAIN props[r] /\ "high" \in DOMAIN props[r])
        => props[r].low <= props[r].high

(* ------------------------------------------------------------------ *)
(* C15                                                                  *)
(* ------------------------------------------------------------------ *)
\* C15: whatever the edits written back by df_to_props, the reserved rule
\* `slots` exists and is the one Props.load left, and at every solver
\* invocation its low and high are the requested slot count
C15_SlotsReserved ==
  /\ "slots" \in DOMAIN props
  /\ props["slots"] = LoadedProps["slots"]
  /\ pc \in {"ready", "loop", "done"} =>
       /\ props["slots"].low = settings.num_slots
       /\ props["slots"].high = settings.num_slots

\* the solver is about to be invoked on a rule set that edits have changed
C15_Witness ==
  /\ pc = "ready"
  /\ props # LoadedProps
  /\ adv_df # <<PropsToDf(LoadedProps)>>
  /\ props["slots"].low = settings.num_slots

(* ------------------------------------------------------------------ *)
(* C16                                                                  *)
(* ------------------------------------------------------------------ *)
\* the builds with sum of counts == num_slots and every count <= max_copy
FullBuilds ==
  {x \in Vectors(Len(df), settings.max_copy) : SlotsOK(x, Len(df), settings)}

\* C16 as stated, where no rule but `slots` carries a bound: with exactly
\* one rule of priority > 0 and no bounds on it, solve_balanced without
\* cuts returns a Build whose total for that rule is the maximum over all
\* builds with sum of counts == num_slots and every count <= max_copy
C16_Original ==
  (/\ Solved
   /\ Cardinality(Weighted(props)) = 1
   /\ \A p \in DOMAIN props \ {"slots"} :
        "low" \notin DOMAIN props[p] /\ "high" \notin DOMAIN props[p]
   /\ FullBuilds # {})
  => LET r == CHOOSE r \in Weighted(props) : TRUE IN
     /\ best.build # EmptyDict
     /\ best.stats[r] = SetMax({LpSum(coef[r], x, Len(df)) : x \in FullBuilds})

(* ------------------------------------------------------------------ *)
(* C17                                                                  *)
(* ------------------------------------------------------------------ *)
\* the bounds of the rules whose use flag is on
ActiveBoundsOK(props_data, c, x, N) ==
  \A p \in DOMAIN props_data :
    GetOr(props_data[p], "use", FALSE) =>
      LET e == LpSum(c[p], x, N) IN
      /\ HasLow(props_data[p]) => e >= props_data[p].low
      /\ HasHigh(props_data[p]) => e <= props_data[p].high

\* C17 as stated: only the rules in use constrain the Build, so
\* solve_balanced returns a Build whenever some full build satisfies the
\* bounds of the rules in use
C17_Original ==
  Solved =>
    ((\E x \in FullBuilds : ActiveBoundsOK(props, coef, x, Len(df)))
       => best.build # EmptyDict)

(* ------------------------------------------------------------------ *)
(* C18                                                                  *)
(* ------------------------------------------------------------------ *)
\* the items a build includes
Support(x) == {i \in DOMAIN x : x[i] # 0}

\* C18 as stated: a cut leaves allowed every full-slot build whose set of
\* included items differs from the set of the cut
C18_Original ==
  \A k \in DOMAIN cuts : \A x \in FullBuilds :
    Support(x) # cuts[k] => CutOK(x, cuts[k], settings)

\* C18: a no-good cut built from a Build B excludes B and every full-slot
\* build that includes only items of B's set; a full-slot build that
\* includes an item outside B's set remains allowed by that cut
C18_CutMeaning ==
  \A k \in DOMAIN cuts : \A x \in FullBuilds :
    CutOK(x, cuts[k], settings) <=> ~(Support(x) \subseteq cuts[k])

\* a cut of two items that excludes a build of one of them, and a cut that
\* leaves a build with an item outside it allowed
C18_Witness ==
  /\ \E k \in DOMAIN cuts : \E x \in FullBuilds :
       /\ Support(x) # cuts[k]
       /\ Support(x) \subseteq cuts[k]
       /\ ~CutOK(x, cuts[k], settings)
  /\ \E k \in DOMAIN cuts : \E x \in FullBuilds :
       /\ cuts[k] # {}
       /\ ~(Support(x) \subseteq cuts[k])
       /\ CutOK(x, cuts[k], settings)

(* ------------------------------------------------------------------ *)
(* C19                                                                  *)
(* ------------------------------------------------------------------ *)
\* sign * (value(row, col_out) - value(row, col_in))
DeltaValue(row, meta) ==
  GetOr(meta, "sign", 1) * (row[meta.col_out] - row[meta.col_in])

\* the value of a sub-rule of a group: a delta or a signed column
SubValue(row, meta) ==
  IF "col_out" \in DOMAIN meta THEN DeltaValue(row, meta)
  ELSE GetOr(meta, "sign", 1) * row[meta.column]

\* C19 as stated: once compute has run, a top-level delta rule has the
\* coefficient sign * (col_out - col_in) in every row, and a group has the
\* sum of the values of its sub-rules, delta sub-rules included
C19_Original ==
  pc # "start" =>
    \A p \in DOMAIN props :
      LET meta == props[p] IN
      /\ (DOMAIN meta \cap {"expr", "column", "group"} = {}
          /\ "col_out" \in DOMAIN meta)
         => /\ p \in DOMAIN coef
            /\ \A i \in 0..(Len(df) - 1) :
                 coef[p][i] = DeltaValue(df[i + 1], meta)
      /\ (DOMAIN meta \cap {"expr", "column"} = {} /\ "group" \in DOMAIN meta)
         => /\ p \in DOMAIN coef
            /\ \A i \in 0..(Len(df) - 1) :
                 coef[p][i] =
                   SumTo([k \in 0..(Len(meta.group) - 1) |->
                            SubValue(df[i + 1], meta.group[k + 1])],
                         Len(meta.group))

(* ------------------------------------------------------------------ *)
(* C20                                                                  *)
(* ------------------------------------------------------------------ *)
\* min(high, achievable maximum) when high is neither absent nor 0, the
\* achievable maximum otherwise; 1 in place of 0
ClaimedScale(meta, achievable) ==
  LET v == IF "high" \in DOMAIN meta /\ meta.high # 0
           THEN (IF meta.high <= achievable THEN meta.high ELSE achievable)
           ELSE achievable
  IN IF v = 0 THEN 1 ELSE v

\* C20: under the same cached extrema solve_balanced and solve_once give
\* every rule of priority > 0 the same scale: min(high, achievable maximum)
\* when high is neither absent nor 0, the achievable maximum otherwise,
\* and 1 when that value is 0
C20_SameScale ==
  amc # <<>> =>
    \A p \in Weighted(props) :
      LET achievable == GetOr(amc[1], p, 1) IN
      /\ ScaleOf(p, props, amc[1]) = ClaimedScale(props[p], achievable)
      /\ ScaleOnceOf(p, props, amc[1]) = ClaimedScale(props[p], achievable)

\* solve_once has run after solve_balanced returned a Build, with a rule of
\* priority > 0 that has an upper bound and one that has none
C20_Witness ==
  /\ results # <<>>
  /\ best.build # EmptyDict
  /\ \E p \in Weighted(props) : HasHigh(props[p])
  /\ \E p \in Weighted(props) : ~HasHigh(props[p])

(* ------------------------------------------------------------------ *)
(* C30                                                                  *)
(* ------------------------------------------------------------------ *)
\* C30 as stated: for every rule of priority > 0 the scale of
\* solve_balanced and the scale of solve_once are strictly positive, also
\* when the achievable maximum or the high bound is negative, and the
\* jittered weight priority * (1 + jitter * U) is never negative
C30_Original ==
  amc # <<>> =>
    \A p \in Weighted(props) :
      /\ ScaleOf(p, props, amc[1]) > 0
      /\ ScaleOnceOf(p, props, amc[1]) > 0
      /\ \A u \in UChoices : Weight(props[p].priority, u) >= 0

(* ------------------------------------------------------------------ *)
(* C21                                                                  *)
(* ------------------------------------------------------------------ *)
\* the lower and upper bounds a rule set puts on the properties
ClaimedLows(props_data) ==
  {<<p, props_data[p].low>> : p \in {q \in DOMAIN props_data :
                                        "low" \in DOMAIN props_data[q]}}

ClaimedHighs(props_data) ==
  {<<p, props_data[p].high>> : p \in {q \in DOMAIN props_data :
                                         /\ "high" \in DOMAIN props_data[q]
                                         /\ props_data[q].high # 0}}

\* C21: across the solve_once calls on one solver the base model exists
\* from the first call on and always holds exactly the rule bounds and the
\* slot equality; no cut of any call is in it, so each call is constrained
\* by the base and its own cut list only
C21_BaseUntouched ==
  /\ base_model = <<>> <=> results = <<>>
  /\ base_model # <<>> =>
       /\ base_model[1].cuts = <<>>
       /\ base_model[1].slots = settings.num_slots
       /\ {<<p, base_model[1].lows[p]>> : p \in DOMAIN base_model[1].lows}
            = ClaimedLows(props)
       /\ {<<p, base_model[1].highs[p]>> : p \in DOMAIN base_model[1].highs}
            = ClaimedHighs(props)

\* the base model does not change between the calls on one solver
C21_Step ==
  (base_model # <<>> /\ base_model' # <<>>) => base_model' = base_model

C21_BaseKept == []C21_BaseUntouched /\ [][C21_Step]_vars

\* a second call has run after a first one, and both put non-empty cuts
\* into their working copies
C21_Witness ==
  /\ Len(results) >= 2
  /\ best.build # EmptyDict
  /\ results[1].build # EmptyDict
  /\ base_model # <<>>

(* ------------------------------------------------------------------ *)
(* C27                                                                  *)
(* ------------------------------------------------------------------ *)
\* C27: every non-empty Build collected by solve_once, whatever its cut
\* list, is a feasible point of the balanced program without cuts; and when
\* the balanced best is the empty Build, every result collected in the same
\* run is the empty Build with score 0
C27_AlternativesWithinBalanced ==
  Solved =>
    /\ \A k \in DOMAIN results :
         results[k].build # EmptyDict =>
           XOf(results[k].build) \in Feasible(props, coef, settings, Len(df), <<>>)
    /\ best.build = EmptyDict =>
         \A k \in DOMAIN results :
           results[k].build = EmptyDict /\ results[k].score = 0

\* the balanced program was infeasible and attempts were collected after it
C27_Witness ==
  /\ Solved
  /\ best.build = EmptyDict
  /\ BaseFeasible(props, coef, settings, Len(df)) = {}
  /\ Len(results) >= 2

(* ------------------------------------------------------------------ *)
(* C28                                                                  *)
(* ------------------------------------------------------------------ *)
\* a result of a feasible attempt, and a degenerate one
FeasibleRow(r) == r.build # EmptyDict
DegenerateRow(r) == r.build = EmptyDict /\ r.score = 0

\* a degenerate result of an attempt whose program had no feasible point
InfeasibleRow(r) ==
  /\ DegenerateRow(r)
  /\ Feasible(props, coef, settings, Len(df), CutsOfAttempt(r.run)) = {}

\* C28 as stated: in the alternatives no result with a non-empty Build
\* comes after a degenerate result of an infeasible attempt, and none is
\* left out while such a degenerate result is kept
C28_Original ==
  pc = "done" =>
    /\ \A i, j \in DOMAIN alts :
         (i < j /\ InfeasibleRow(alts[i])) => ~FeasibleRow(alts[j])
    /\ \A r \in LeftOut(results, alts) :
         FeasibleRow(r) => \A a \in Range(alts) : ~InfeasibleRow(a)

\* C28: the alternatives are ranked by score alone. A result with a
\* non-empty Build comes after a degenerate result only if its score is
\* negative, or is 0 and it was collected later; and as alt_runs equals
\* alt_cnt every collected result is among the alternatives
C28_RankedByScoreOnly ==
  pc = "done" =>
    /\ \A i, j \in DOMAIN alts :
         (i < j /\ DegenerateRow(alts[i]) /\ FeasibleRow(alts[j])) =>
           \/ alts[j].score < 0
           \/ alts[j].score = 0 /\ alts[i].run < alts[j].run
    /\ \A i, j \in DOMAIN alts :
         (FeasibleRow(alts[i]) /\ alts[i].score > 0 /\ DegenerateRow(alts[j]))
           => i < j
    /\ Range(alts) = Range(results)

\* the alternatives hold a degenerate result that was collected before a
\* result with a non-empty Build and a positive score, and is ranked after it
C28_Witness ==
  /\ pc = "done"
  /\ \E i, j \in DOMAIN alts :
       /\ i < j
       /\ FeasibleRow(alts[i])
       /\ alts[i].score > 0
       /\ DegenerateRow(alts[j])
       /\ alts[j].run < alts[i].run

(* ------------------------------------------------------------------ *)
(* C24                                                                  *)
(* ------------------------------------------------------------------ *)
\* the rules whose use flag is off (a rule without the flag counts as off)
Unused(props_data) ==
  {p \in DOMAIN props_data : ~GetOr(props_data[p], "use", FALSE)}

\* C24: whenever compute_builds works on a rule set, the rules that get a
\* term in the objectives of solve_balanced and solve_once all have their
\* use flag on and a priority > 0; a rule switched off in the editor has
\* priority 0 and gets no term
C24_OnlyActiveRules ==
  pc \in {"start", "ready", "loop", "done", "failed"} =>
    /\ Weighted(props) \cap Unused(props) = {}
    /\ \A p \in Weighted(props) : props[p].priority > 0
    /\ \A p \in Unused(props) : GetOr(props[p], "priority", 0) = 0

\* both solves have run on a rule set in which a rule was switched off in
\* the editor while its row kept a positive priority
C24_Witness ==
  /\ pc = "done"
  /\ results # <<>>
  /\ adv_df # <<>>
  /\ \E k \in DOMAIN adv_df[1] :
       /\ ~adv_df[1][k].Use
       /\ adv_df[1][k].Priority > 0
       /\ \E p \in Unused(props) : Display(props)[p] = adv_df[1][k].Property

(* ------------------------------------------------------------------ *)
(* C26                                                                  *)
(* ------------------------------------------------------------------ *)
\* The worker thread of run_with_dynamic_spinner and the loop of the main
\* thread are scheduled by the operating system: a step of compute_builds
\* that stays possible is taken, and so is the return of the spinner once
\* `done` is set. The user's actions carry no fairness.
FairSpecPage ==
  SpecPage /\ WF_vars(NewManager \/ RunBalanced \/ RunAlternative \/ StoreResults)

\* task_fn has ended inside the worker thread: by returning, or by raising
TaskEnded == pc \in {"done", "failed", "hung"}

\* run_with_dynamic_spinner has returned to the submit handler
SpinnerLeft == pc = "form"

\* C26 as stated: whenever task_fn has ended, by a return or by an
\* exception, run_with_dynamic_spinner eventually returns or fails, and
\* when it returns the session holds exactly the result of task_fn
C26_Original ==
  /\ TaskEnded ~> SpinnerLeft
  /\ [][StoreResults => (session'.best = best /\ session'.alts = alts)]_vars

(* ------------------------------------------------------------------ *)
(* Two runs of get_or_compute_achievable on one session store           *)
(* ------------------------------------------------------------------ *)
\* the state of one compute_builds call
runvars == <<settings, props, df, coef, achievable_cache, compute_calls, amc,
             best, cuts, results, alts, pc, base_model>>

\* everything but `threads` at rest, with pc naming what is modelled
AtRest(p) ==
  /\ settings \in {s \in PageSettingsChoices : s.num_slots = 1 /\ s.max_copy = 1}
  /\ props = LoadedProps
  /\ adv_df = <<PropsToDf(props)>>
  /\ fixed_artifacts = <<>>
  /\ errors = <<>>
  /\ session = NoResults
  /\ page = "app"
  /\ runs = 0
  /\ df = <<>>
  /\ coef = EmptyDict
  /\ achievable_cache = EmptyDict
  /\ compute_calls = 0
  /\ amc = <<>>
  /\ best = EmptyDict
  /\ cuts = <<>>
  /\ results = <<>>
  /\ alts = <<>>
  /\ base_model = <<>>
  /\ pc = p

\* the worker threads of two script runs of one session
Threads == {1, 2}

\* the Settings and rule set a run is called with
RunConfigs ==
  {[set |-> s, props_data |-> PropsLoad(RuleFile(s.props_file), s.num_slots)] :
     s \in {t \in PageSettingsChoices : t.max_copy = 1}}

\* compute_fn of a run: solver._compute_all_achievable() on a new solver
ComputeFn(cfg) ==
  LET rows == LoadJson(cfg.set) IN
  ComputeAllAchievable(<<>>, cfg.props_data, Compute(cfg.props_data, rows),
                       cfg.set, Len(rows))

\* the local variables of a run at its entry
EnterRun(cfg) ==
  [cfg |-> cfg, pc |-> "load", cache |-> 0, maxima |-> <<>>, ret |-> <<>>,
   called |-> 0]

\* The session dict is a reference: heap holds the dict objects created so
\* far and session_cache is the index of the one bound to
\* st.session_state['achievable_cache'], 0 while the key is absent.
InitThreads ==
  /\ \E c1 \in RunConfigs, c2 \in RunConfigs :
     \E old \in {<<>>} \cup {<<c>> : c \in RunConfigs} :
       threads = [heap |-> IF old = <<>> THEN <<>>
                           ELSE <<SaveSessionAchievable(EmptyDict,
                                     HashKey(old[1].set, old[1].props_data),
                                     ComputeFn(old[1]))>>,
                  session_cache |-> IF old = <<>> THEN 0 ELSE 1,
                  run |-> [i \in Threads |-> EnterRun(IF i = 1 THEN c1 ELSE c2)]]
  /\ job = <<>>
  /\ AtRest("threads")

\* the fingerprint of run i
KeyOf(i) == HashKey(threads.run[i].cfg.set, threads.run[i].cfg.props_data)

\* one step of run i that changes its locals to r and leaves the session
LocalStep(i, r) ==
  threads' = [threads EXCEPT !.run[i] = r]

\* load_session_achievable: cache = st.session_state.get('achievable_cache', {})
LoadCache(i) ==
  /\ threads.run[i].pc = "load"
  /\ LocalStep(i, [threads.run[i] EXCEPT !.cache = threads.session_cache,
                                         !.pc = "get"])

\* load_session_achievable: cache.get(hash_key), and the test of the result
\* in get_or_compute_achievable
GetEntry(i) ==
  /\ threads.run[i].pc = "get"
  /\ LET cache == IF threads.run[i].cache = 0 THEN EmptyDict
                  ELSE threads.heap[threads.run[i].cache]
         result == LoadSessionAchievable(cache, KeyOf(i))
     IN LocalStep(i, IF result # <<>>
                     THEN [threads.run[i] EXCEPT !.ret = result,
                                                 !.pc = "returned"]
                     ELSE [threads.run[i] EXCEPT !.pc = "compute"])

\* _, maxima = compute_fn(settings)
CallComputeFn(i) ==
  /\ threads.run[i].pc = "compute"
  /\ LocalStep(i, [threads.run[i] EXCEPT
                     !.maxima = <<ComputeFn(threads.run[i].cfg)>>,
                     !.called = @ + 1,
                     !.pc = "check"])

\* save_session_achievable: `if 'achievable_cache' not in st.session_state`
SaveCheck(i) ==
  /\ threads.run[i].pc = "check"
  /\ LocalStep(i, [threads.run[i] EXCEPT
                     !.pc = IF threads.session_cache = 0 THEN "init"
                            ELSE "item"])

\* save_session_achievable: st.session_state['achievable_cache'] = {}
SaveInit(i) ==
  /\ threads.run[i].pc = "init"
  /\ threads' = [threads EXCEPT
                   !.heap = Append(@, EmptyDict),
                   !.session_cache = Len(threads.heap) + 1,
                   !.run[i].pc = "item"]

\* save_session_achievable: the dict st.session_state['achievable_cache']
\* evaluates to, before the item assignment
SaveItem(i) ==
  /\ threads.run[i].pc = "item"
  /\ LocalStep(i, [threads.run[i] EXCEPT !.cache = threads.session_cache,
                                         !.pc = "write"])

\* save_session_achievable: ...[hash_key] = data, and `return maxima`
SaveWrite(i) ==
  /\ threads.run[i].pc = "write"
  /\ threads' = [threads EXCEPT
                   !.heap[threads.run[i].cache] =
                      SaveSessionAchievable(@, KeyOf(i), threads.run[i].maxima[1]),
                   !.run[i].ret = threads.run[i].maxima,
                   !.run[i].pc = "returned"]

ThreadStep(i) ==
  \/ LoadCache(i)
  \/ GetEntry(i)
  \/ CallComputeFn(i)
  \/ SaveCheck(i)
  \/ SaveInit(i)
  \/ SaveItem(i)
  \/ SaveWrite(i)

NextThreads ==
  /\ \E i \in Threads : ThreadStep(i)
  /\ UNCHANGED runvars
  /\ UNCHANGED pagevars
  /\ UNCHANGED job

SpecThreads == InitThreads /\ [][NextThreads]_vars

\* the session store as the script sees it: <<>> while the key is absent
SessionStore ==
  IF threads.session_cache = 0 THEN <<>>
  ELSE <<threads.heap[threads.session_cache]>>

\* both runs have returned
BothReturned == \A i \in Threads : threads.run[i].pc = "returned"

(* ------------------------------------------------------------------ *)
(* C22                                                                  *)
(* ------------------------------------------------------------------ *)
\* C22: when two runs with the same fingerprint have both returned, under
\* any interleaving, both returned the maxima compute_fn gives for their
\* configuration, the store holds exactly these maxima under the
\* fingerprint, and compute_fn ran once or twice or, on a hit of both, not
\* at all
C22_SameFingerprint ==
  (BothReturned /\ KeyOf(1) = KeyOf(2)) =>
    /\ threads.run[1].ret = threads.run[2].ret
    /\ threads.run[1].ret = <<ComputeFn(threads.run[1].cfg)>>
    /\ SessionStore # <<>>
    /\ Opt(SessionStore[1], KeyOf(1)) = threads.run[1].ret
    /\ threads.run[1].called + threads.run[2].called \in 0..2

\* both runs had the same fingerprint, missed, ran compute_fn and returned,
\* and the dict of the session was created twice
C22_Witness ==
  /\ BothReturned
  /\ KeyOf(1) = KeyOf(2)
  /\ threads.run[1].called + threads.run[2].called = 2
  /\ Len(threads.heap) = 2

(* ------------------------------------------------------------------ *)
(* C25                                                                  *)
(* ------------------------------------------------------------------ *)
\* C25 as stated: when two runs with different fingerprints have both
\* returned, under any interleaving, the store holds both fingerprints,
\* each with the maxima its own run computed
C25_Original ==
  (BothReturned /\ KeyOf(1) # KeyOf(2)) =>
    /\ SessionStore # <<>>
    /\ \A i \in Threads :
         Opt(SessionStore[1], KeyOf(i)) = threads.run[i].ret

(* ------------------------------------------------------------------ *)
(* Several runs of compute_builds in one session of app.py              *)
(* ------------------------------------------------------------------ *)
\* app.py loads props/props_tier<tier>.yaml, whatever settings.props_file is
TierRuleFile(tier) == RuleFile(IF tier = 1 THEN "props" ELSE "group")

\* the bounds the user gives rule p in the editor
SessionBounds == {EmptyDict, [high |-> -1]}

\* what a script run of app.py hands to compute_builds: the inputs of the
\* form, and the rules of the tier's file with the bounds of the editor
SessionConfigs ==
  {[set |-> Recompute([tier |-> t, num_slots |-> n, max_copy |-> 1,
                       blacklist |-> bl, alt_cnt |-> 1, alt_runs |-> 1,
                       props_file |-> "props"]),
    props_data |-> PropsLoad([p |-> b @@ TierRuleFile(t).p,
                              q |-> TierRuleFile(t).q], n)] :
     t \in Tiers, n \in 1..MaxSlots, bl \in {<<"c", "d">>, <<"d", "c">>},
     b \in SessionBounds}

InitSession ==
  /\ \E c \in SessionConfigs : settings = c.set /\ props = c.props_data
  /\ df = <<>>
  /\ coef = EmptyDict
  /\ achievable_cache = EmptyDict
  /\ compute_calls = 0
  /\ amc = <<>>
  /\ best = EmptyDict
  /\ cuts = <<>>
  /\ results = <<>>
  /\ alts = <<>>
  /\ pc = "start"
  /\ adv_df = <<PropsToDf(props)>>
  /\ fixed_artifacts = <<>>
  /\ errors = <<>>
  /\ session = NoResults
  /\ page = "app"
  /\ runs = 1
  /\ base_model = <<>>
  /\ threads = <<>>
  /\ job = <<>>

\* the next script run of the session: the user has changed the form and
\* the table and submits again; compute_builds starts with a new manager,
\* and of the state only st.session_state outlives the script run
NextRun ==
  /\ pc = "done"
  /\ runs < MaxRuns
  /\ \E c \in SessionConfigs :
       /\ settings' = c.set
       /\ props' = c.props_data
       /\ adv_df' = <<PropsToDf(c.props_data)>>
  /\ session' = [best |-> best, alts |-> alts, show_builds |-> TRUE]
  /\ runs' = runs + 1
  /\ pc' = "start"
  /\ df' = <<>>
  /\ coef' = EmptyDict
  /\ amc' = <<>>
  /\ best' = EmptyDict
  /\ cuts' = <<>>
  /\ results' = <<>>
  /\ alts' = <<>>
  /\ base_model' = <<>>
  /\ UNCHANGED <<achievable_cache, compute_calls, fixed_artifacts, errors, page>>
  /\ UNCHANGED sidevars

NextSession ==
  \/ NewManager
  \/ RunBalanced
  \/ RunAlternative
  \/ NextRun

SpecSession == InitSession /\ [][NextSession]_vars

(* ------------------------------------------------------------------ *)
(* C29                                                                  *)
(* ------------------------------------------------------------------ *)
\* the maxima compute_fn returns for a configuration on a new solver
FreshMaxima(set, props_data) ==
  LET rows == LoadJson(set) IN
  ComputeAllAchievable(<<>>, props_data, Compute(props_data, rows), set,
                       Len(rows))

\* C29: what get_or_compute_achievable returns, on a hit as on a miss, is
\* the maxima a fresh computation gives for the current Settings and rule
\* set; and every stored entry is the fresh maxima of every configuration
\* of the session that has its fingerprint, whatever the tier, exclusions,
\* slot count, rule file and bounds of that configuration are
C29_HitEqualsFresh ==
  /\ pc \in {"loop", "done"} => amc = <<FreshMaxima(settings, props)>>
  /\ \A c \in SessionConfigs :
       HashKey(c.set, c.props_data) \in DOMAIN achievable_cache =>
         achievable_cache[HashKey(c.set, c.props_data)]
           = FreshMaxima(c.set, c.props_data)

\* the second run of a session was served from the entry the first run
\* had stored
C29_Witness ==
  /\ runs = 2
  /\ pc \in {"loop", "done"}
  /\ compute_calls = 1
  /\ Cardinality(DOMAIN achievable_cache) = 1
  /\ settings.blacklist = <<"d", "c">>

(* ------------------------------------------------------------------ *)
(* The precompute job (precompute_achievable) and the disk store        *)
(* ------------------------------------------------------------------ *)
\* the props_file of the presets of preset_map
PresetFiles == {"props.yaml", "delta.yaml"}

\* props_file.replace('.yaml', '')
Stem(props_file) ==
  IF props_file = "props.yaml" THEN "props"
  ELSE IF props_file = "delta.yaml" THEN "delta"
  ELSE props_file

\* TIERS, the slot range, the max_copy range and BLACKLISTS of the job
GridTiers == {1, 2}
GridSlots == {2}
GridMaxCopy == {1}
GridBlacklists == {<<"c", "d">>, <<"d">>}

\* combos: one grid point per preset, tier, slot count, max_copy, blacklist
Combos ==
  {[tier |-> t, slots |-> n, max_copy |-> m, blacklist |-> bl,
    props_file |-> f] :
     t \in GridTiers, n \in GridSlots, m \in GridMaxCopy,
     bl \in GridBlacklists, f \in PresetFiles}

\* worker: the Settings of a grid point
WorkerSettings(c) ==
  [tier |-> c.tier, num_slots |-> c.slots, max_copy |-> c.max_copy,
   blacklist |-> c.blacklist, alt_cnt |-> 0, alt_runs |-> 0,
   props_file |-> c.props_file]

\* compute_achievable_extrema: Props.load(PROPS_DIR / settings.props_file)
WorkerProps(c) == PropsLoad(RuleFile(Stem(c.props_file)), c.slots)

\* compute_achievable_extrema: the maxima of the rules in use with a
\* priority > 0, each computed after the solver's cache was cleared
ComputeAchievableExtrema(c) ==
  LET set == WorkerSettings(c)
      props_data == WorkerProps(c)
      rows == LoadJson(set)
      cf == Compute(props_data, rows)
  IN [p \in {q \in DOMAIN props_data :
               /\ GetOr(props_data[q], "use", FALSE)
               /\ GetOr(props_data[q], "priority", 0) > 0} |->
        GetAchievableMax(p, <<>>, props_data, cf, set, Len(rows))]

\* compute_hash: the digest of the payload, kept like the one of
\* generate_achievable_hash as the tuple of its fields in key order
ComputeHash(tier, slots, max_copy, blacklist, props_file, props_data) ==
  <<blacklist, max_copy, PropsPayload(props_data), props_file, slots, tier>>

\* worker: the key string, kept as the tuple of the parts it is built from
WorkerKey(c) ==
  <<Stem(c.props_file), c.tier, c.slots, c.max_copy, c.blacklist>>

\* worker: the value returned next to the key
WorkerResult(c) ==
  [hash |-> ComputeHash(c.tier, c.slots, c.max_copy, c.blacklist,
                        c.props_file, WorkerProps(c)),
   maxima |-> ComputeAchievableExtrema(c)]

\* `stem in k`: no stem of the model is part of another key
StemIn(stem, k) == k[1] = stem

\* main: filtered = {k: v for k, v in results.items() if stem in k}
WriteFile(collected, stem) ==
  [k \in {j \in DOMAIN collected : StemIn(stem, j)} |-> collected[k]]

\* load_disk_achievable: <<>> for None; files maps the preset_id of a file
\* achievable_<preset_id>.json to its content
LoadDiskAchievable(files, preset_id, hash_key) ==
  IF preset_id \notin DOMAIN files THEN <<>>
  ELSE LET entry == Opt(files[preset_id], hash_key) IN
       IF entry # <<>> /\ entry[1] # EmptyDict THEN entry ELSE <<>>

InitJob ==
  /\ job = [status |-> [c \in Combos |-> "pending"],
            results |-> EmptyDict,
            files |-> EmptyDict,
            pc |-> "collect"]
  /\ threads = <<>>
  /\ AtRest("job")

\* as_completed yields a future whose worker returned: results[key] = res
WorkerDone(c) ==
  /\ job.pc = "collect"
  /\ job.status[c] = "pending"
  /\ ~ComputeRaises(WorkerProps(c))
  /\ job' = [job EXCEPT
               !.status[c] = "done",
               !.results = [k \in DOMAIN @ \cup {WorkerKey(c)} |->
                              IF k = WorkerKey(c) THEN WorkerResult(c)
                              ELSE @[k]]]

\* as_completed yields a future whose worker raised (a rule compute cannot
\* derive, or a worker process that died): the error is printed
WorkerFailed(c) ==
  /\ job.pc = "collect"
  /\ job.status[c] = "pending"
  /\ job' = [job EXCEPT !.status[c] = "failed"]

\* main after the pool: one file per preset
WriteFiles ==
  /\ job.pc = "collect"
  /\ \A c \in Combos : job.status[c] # "pending"
  /\ job' = [job EXCEPT
               !.files = [s \in {Stem(f) : f \in PresetFiles} |->
                            WriteFile(job.results, s)],
               !.pc = "written"]

NextJob ==
  /\ \/ \E c \in Combos : WorkerDone(c)
     \/ \E c \in Combos : WorkerFailed(c)
     \/ WriteFiles
  /\ UNCHANGED runvars
  /\ UNCHANGED pagevars
  /\ UNCHANGED threads

SpecJob == InitJob /\ [][NextJob]_vars

(* ------------------------------------------------------------------ *)
(* C23                                                                  *)
(* ------------------------------------------------------------------ *)
\* the fingerprint of a grid point
FingerprintOf(c) ==
  ComputeHash(c.tier, c.slots, c.max_copy, c.blacklist, c.props_file,
              WorkerProps(c))

\* C23 as stated: once the files are written, for every grid point whose
\* worker succeeded, load_disk_achievable with the preset of the grid point
\* (the props_file, with or without its extension) and its fingerprint
\* returns the maxima computed for it
C23_Original ==
  job.pc = "written" =>
    \A c \in Combos :
      job.status[c] = "done" =>
        \E preset_id \in {Stem(c.props_file), c.props_file} :
          LoadDiskAchievable(job.files, preset_id, FingerprintOf(c))
            = <<ComputeAchievableExtrema(c)>>

====
